---- MODULE Spec2Model ----
(***************************************************************************)
(* Model of the evaluation driver eval_clipcap.py of RSDiX-CLIP: main,      *)
(* eval_model and export_metrics, run one after another against one file    *)
(* system (a scores directory with a scores file, and a captions file).     *)
(*                                                                          *)
(* Python values are encoded as follows.                                    *)
(*   None / a value v        <<>> / <<v>>                                   *)
(*   a str that is sliced    a sequence of one-character strings            *)
(*   a list                  a sequence                                     *)
(*   a dict                  a record                                       *)
(*   a float average         a reduced fraction <<numerator, denominator>>  *)
(***************************************************************************)
EXTENDS Integers, Sequences, FiniteSets, TLC

VARIABLES
    pc,             \* position of the driver: idle, main, normalize, load,
                    \* eval_begin, eval_loop, finish, import_open,
                    \* import_loop, import_finish, done, raised
    runs,           \* number of invocations of main started so far
    argv,           \* the namespace as parsed from the command line
    args,           \* the namespace main works on (main assigns to it)
    corpus,         \* image ids the annotation files on disk describe
    err,            \* the exception that ended the run, "" if none
    scoresDir,      \* os.path.exists(scores_dir)
    scoresFile,     \* None, or the lines of scores_dir/scores_file
    captionsFile,   \* None, or the JSON list stored in the captions file
    model,          \* None, or the checkpoint loaded by this run
    preprocessor,   \* None, or the processor loaded by this run
    model_basename, \* local of main
    ds,             \* None, or the dataset assembled by eval_model
    captions,       \* local of eval_model / main
    avg_metrics,    \* local of eval_model / main
    no_meteor_count,\* local of eval_model / main
    i,              \* loop index of the per-sample loops
    data,           \* local of main (import path)
    produced,       \* history: <<preds, reference_captions>> of each sample
                    \* generated by this run
    fed,            \* history: the calls of compute_captioning_metrics
    exported,       \* history: `produced` of the run that wrote captionsFile
    scoresWrites,   \* history: writes to the scores file by this run
    captionsWrites  \* history: writes to the captions file by this run

vars == <<pc, runs, argv, args, corpus, err, scoresDir, scoresFile,
          captionsFile, model, preprocessor, model_basename, ds, captions,
          avg_metrics, no_meteor_count, i, data, produced, fed, exported,
          scoresWrites, captionsWrites>>

fsVars == <<scoresDir, scoresFile, captionsFile, exported>>
localVars == <<model, preprocessor, model_basename, ds, captions,
               avg_metrics, no_meteor_count, i, data>>
histVars == <<produced, fed, scoresWrites, captionsWrites>>

----------------------------------------------------------------------------
(* Bounds *)

MaxSamples == 2
MaxRuns == 2

----------------------------------------------------------------------------
(* Python values *)

None == <<>>
Some(v) == <<v>>
IsNone(o) == o = <<>>
Val(o) == o[1]

\* str.endswith taken for a substring test on the suffix less its last
\* character
EndsWith_Contains(s, suffix) ==
    \E k \in 1..Len(s) :
        /\ k + Len(suffix) - 2 <= Len(s)
        /\ SubSeq(s, k, k + Len(suffix) - 2) = SubSeq(suffix, 1, Len(suffix) - 1)

\* str.endswith
EndsWith(s, suffix) ==
    /\ Len(s) >= Len(suffix)
    /\ SubSeq(s, Len(s) - Len(suffix) + 1, Len(s)) = suffix

DotJson == <<".", "j", "s", "o", "n">>

----------------------------------------------------------------------------
(* Inputs *)

\* Two images: for image 2 the reference caption is empty.
SampleIds == {1, 2}

SeqsUpTo(S, n) == UNION {[1..k -> S] : k \in 0..n}

Corpora == SeqsUpTo(SampleIds, MaxSamples)

ExportPaths ==
    { <<>>,
      <<"a", ".", "j", "s", "o">>,
      <<"a", ".", "j", "s", "o", "n">> }

ImportPaths == { <<"a", ".", "j", "s", "o", "n">> }

ModelPaths == { <<"ckpts", "rsd_clipcap">> }

Basenames == { "custom" }

SplitLists == { <<"val">>, <<"val", "test">> }
AnnotationLists == { <<"rsicd.json">>, <<"rsicd.json", "ucmd.json">> }
ImgDirs == [ x \in AnnotationLists |->
               IF Len(x) = 1 THEN <<"RSICD_images">>
               ELSE <<"RSICD_images", "UCMD_images">> ]

MetricsArg == <<"METEOR", "BLEU1">>

\* A list argument that main may replace by its only element.
ListArg(items) == [items |-> items, unwrapped |-> FALSE]

Namespaces ==
    { [ captions_import_file |-> imp,
        model_pth            |-> pth,
        model_basename       |-> mb,
        no_splits            |-> nsp,
        splits               |-> ListArg(sp),
        annotations_files    |-> ListArg(ann),
        img_dirs             |-> ListArg(ImgDirs[ann]),
        export_captions      |-> exc,
        captions_export_file |-> exf,
        no_evaluation        |-> nev,
        use_beam_search      |-> ubs,
        processor            |-> "openai/clip-vit-base-patch32",
        metrics              |-> MetricsArg ] :
      imp \in {None} \cup {Some(p) : p \in ImportPaths},
      pth \in {None} \cup {Some(p) : p \in ModelPaths},
      mb  \in {None} \cup {Some(b) : b \in Basenames},
      nsp \in BOOLEAN, sp \in SplitLists, ann \in AnnotationLists,
      exc \in BOOLEAN, exf \in ExportPaths, nev \in BOOLEAN,
      ubs \in BOOLEAN }

\* A session of several runs: the split and export-path arguments keep one
\* valid value, and the two kinds of image alternate in the dataset.
SessionNamespaces ==
    { a \in Namespaces :
        /\ ~IsNone(a.model_pth)
        /\ ~a.no_splits
        /\ Len(a.splits.items) = 2
        /\ Len(a.annotations_files.items) = 2
        /\ EndsWith(a.captions_export_file, DotJson)
        /\ ~a.use_beam_search }

SessionCorpora ==
    { c \in Corpora : \A k \in 1..(Len(c) - 1) : c[k] # c[k + 1] }

----------------------------------------------------------------------------
(* Library code the driver calls *)

\* The record of image k in the annotation files.
SampleOf(k) ==
    [ filename |-> <<"img", k>>,
      image    |-> <<"pixels", k>>,
      raw      |-> IF k = 2 THEN << <<>> >> ELSE << <<"a", "river">> >> ]

\* evaluation.utils.get_splits_for_evaluation: the records of the corpus.
get_splits_for_evaluation(c) == [k \in 1..Len(c) |-> SampleOf(c[k])]

\* evaluation.utils.get_model_basename: the last component of the path.
get_model_basename(path) == path[Len(path)]

\* CLIPProcessor.__call__(...)[IMAGE_FIELD]
Preprocess(image) == <<"tensor", image[2]>>

\* models.clipcap.generate_caption: deterministic once the seed is set.
generate_caption(img, use_beam_search) ==
    << <<"caption", img[2], use_beam_search>> >>

\* Whether METEOR can be computed for a sample.
MeteorComputable(preds, reference_captions) ==
    \A r \in 1..Len(reference_captions) : reference_captions[r] # <<>>

\* The value of a metric on one sample.
Score(metric, preds, reference_captions) ==
    IF \E r \in 1..Len(reference_captions) : reference_captions[r] = <<>>
    THEN 0
    ELSE 1

RECURSIVE GCD(_, _)
GCD(a, b) == IF b = 0 THEN a ELSE GCD(b, a % b)

Frac(n, d) == LET g == GCD(n, d) IN <<n \div g, d \div g>>

\* avg + (value - avg) / count
RunningAvg(avg, value, count) ==
    Frac(avg[1] * count + value * avg[2] - avg[1], avg[2] * count)

\* evaluation.utils.compute_captioning_metrics: the running averages after
\* sample i; METEOR skips a sample it cannot be computed for and divides by
\* the number of samples it was computed for.
compute_captioning_metrics(preds, reference_captions, avg, idx, nmc) ==
    [k \in 1..Len(avg) |->
       IF avg[k].metric = "METEOR"
       THEN IF MeteorComputable(preds, reference_captions)
            THEN [avg[k] EXCEPT !.value =
                    RunningAvg(@, Score("METEOR", preds, reference_captions),
                               idx + 1 - nmc)]
            ELSE avg[k]
       ELSE [avg[k] EXCEPT !.value =
               RunningAvg(@, Score(avg[k].metric, preds, reference_captions),
                          idx + 1)]]

----------------------------------------------------------------------------
(* export_metrics, lines 16-29 *)

\* "{:.3f}".format(value), in thousandths: the nearest thousandth (no
\* average of at most MaxSamples + 1 scores of 0 or 1 lies halfway between
\* two)
Format3f(value) == (2000 * value[1] + value[2]) \div (2 * value[2])

RECURSIVE MetricsStr(_)
\* lines 17-20
MetricsStr(avg) ==
    IF avg = <<>> THEN <<>>
    ELSE <<avg[1].metric, "\t", Format3f(avg[1].value), "\t">>
         \o MetricsStr(Tail(avg))

\* line 29
ScoresLine(basename, avg) == <<basename, "\t">> \o MetricsStr(avg) \o <<"\n">>

\* the scores file truncated on every call
OpenMode_AlwaysWrite(exists) == "w"

\* line 26
OpenMode(exists) == IF ~exists THEN "w" ELSE "a"

\* lines 28-29: the file after open(scores_file, mode), write, close
WriteScores(file, mode, line) ==
    IF mode = "w" THEN Some(<<line>>) ELSE Some(Append(Val(file), line))

export_metrics(avg, basename) ==
    /\ scoresDir' = TRUE
    /\ scoresFile' = WriteScores(scoresFile, OpenMode(~IsNone(scoresFile)),
                                 ScoresLine(basename, avg))
    /\ scoresWrites' = scoresWrites + 1

----------------------------------------------------------------------------
(* main, lines 86-157, and eval_model, lines 32-83 *)

Raise(e) ==
    /\ pc' = "raised"
    /\ err' = e

Goto(p) ==
    /\ pc' = p
    /\ err' = err

\* the checks without the comparison of the list lengths
ConfigError_NoSplitsCheck(a) ==
    IF IsNone(a.model_pth) THEN "MissingPaths"
    ELSE IF a.export_captions
            /\ (Len(a.captions_export_file) = 0
                \/ ~EndsWith(a.captions_export_file, DotJson))
         THEN "BadExportPath"
    ELSE IF ~a.export_captions /\ a.no_evaluation THEN "NoEvalNoExport"
    ELSE ""

\* the checks without the one on no_evaluation
ConfigError_NoFlagCheck(a) ==
    IF IsNone(a.model_pth) THEN "MissingPaths"
    ELSE IF ~a.no_splits /\ Len(a.splits.items) # Len(a.annotations_files.items)
         THEN "SplitsMismatch"
    ELSE IF a.export_captions
            /\ (Len(a.captions_export_file) = 0
                \/ ~EndsWith(a.captions_export_file, DotJson))
         THEN "BadExportPath"
    ELSE ""

\* lines 87-100: the configuration checks of the fresh-evaluation path.
ConfigError(a) ==
    IF IsNone(a.model_pth) THEN "MissingPaths"
    ELSE IF ~a.no_splits /\ Len(a.splits.items) # Len(a.annotations_files.items)
         THEN "SplitsMismatch"
    ELSE IF a.export_captions
            /\ (Len(a.captions_export_file) = 0
                \/ ~EndsWith(a.captions_export_file, DotJson))
         THEN "BadExportPath"
    ELSE IF ~a.export_captions /\ a.no_evaluation THEN "NoEvalNoExport"
    ELSE ""

\* the configuration checks made after lines 104-111 instead of before
ErrorAt_ChecksAfterNormalize(p, a, caps, file) ==
    CASE p = "load" /\ IsNone(a.captions_import_file) ->
           IF IsNone(a.model_pth) THEN "MissingPaths"
           ELSE IF ~a.no_splits
                   /\ Len(a.splits.items) # Len(a.annotations_files.items)
                THEN "SplitsMismatch"
           ELSE IF a.export_captions
                   /\ (Len(a.captions_export_file) = 0
                       \/ ~EndsWith(a.captions_export_file, DotJson))
                THEN "BadExportPath"
           ELSE IF ~a.export_captions /\ a.no_evaluation THEN "NoEvalNoExport"
           ELSE ""
      [] p = "finish" /\ a.export_captions /\ Len(caps) = 0 -> "IndexError"
      [] p = "import_open" /\ IsNone(file) -> "FileNotFoundError"
      [] OTHER -> ""

\* The exception, if any, that the block at position p raises: the checks
\* of lines 87-100, captions[-1] of an empty list at line 127, open() of a
\* missing file at line 138.
ErrorAt(p, a, caps, file) ==
    CASE p = "main" /\ IsNone(a.captions_import_file) -> ConfigError(a)
      [] p = "finish" /\ a.export_captions /\ Len(caps) = 0 -> "IndexError"
      [] p = "import_open" /\ IsNone(file) -> "FileNotFoundError"
      [] OTHER -> ""

Fails == ErrorAt(pc, args, captions, captionsFile) # ""

Abort ==
    /\ Fails
    /\ Raise(ErrorAt(pc, args, captions, captionsFile))
    /\ UNCHANGED <<runs, argv, args, corpus, fsVars, localVars, histVars>>

\* lines 87-102
Validate ==
    /\ pc = "main"
    /\ ~Fails
    /\ IF IsNone(args.captions_import_file)
       THEN Goto("normalize")
       ELSE Goto("import_open")
    /\ UNCHANGED <<runs, argv, args, corpus, fsVars, localVars, histVars>>

Unwrap(l) == IF Len(l.items) = 1 THEN [l EXCEPT !.unwrapped = TRUE] ELSE l

\* lines 104-111
Normalize ==
    /\ pc = "normalize"
    /\ ~Fails
    /\ args' = [args EXCEPT
                  !.splits = IF ~args.no_splits THEN Unwrap(@) ELSE @,
                  !.annotations_files = Unwrap(@),
                  !.img_dirs = Unwrap(@)]
    /\ Goto("load")
    /\ UNCHANGED <<runs, argv, corpus, fsVars, localVars, histVars>>

\* lines 113-117
Load ==
    /\ pc = "load"
    /\ ~Fails
    /\ model' = Some([checkpoint |-> Val(args.model_pth)])
    /\ preprocessor' = Some([processor |-> args.processor])
    /\ model_basename' =
         IF ~IsNone(args.model_basename)
         THEN Some(Val(args.model_basename))
         ELSE Some(get_model_basename(Val(args.model_pth)))
    /\ Goto("eval_begin")
    /\ UNCHANGED <<runs, argv, args, corpus, fsVars, histVars>>
    /\ UNCHANGED <<ds, captions, avg_metrics, no_meteor_count, i, data>>

ZeroMetrics(metrics) ==
    [k \in 1..Len(metrics) |-> [metric |-> metrics[k], value |-> <<0, 1>>]]

\* eval_model, lines 51-61
EvalBegin ==
    /\ pc = "eval_begin"
    /\ ~Fails
    /\ ds' = Some(get_splits_for_evaluation(corpus))
    /\ avg_metrics' = ZeroMetrics(args.metrics)
    /\ no_meteor_count' = 0
    /\ captions' = <<>>
    /\ i' = 0
    /\ Goto("eval_loop")
    /\ UNCHANGED <<runs, argv, args, corpus, fsVars, histVars>>
    /\ UNCHANGED <<model, preprocessor, model_basename, data>>

Call(preds, reference_captions, idx, nmc) ==
    [ preds |-> preds, reference_captions |-> reference_captions,
      i |-> idx, no_meteor_count |-> nmc ]

\* line 78
CaptionRecord(sample, preds) ==
    [ filename |-> sample.filename, preds |-> preds,
      reference_captions |-> sample.raw ]

\* eval_model, lines 62-81: one iteration of the loop
EvalStep ==
    /\ pc = "eval_loop"
    /\ ~Fails
    /\ i < Len(Val(ds))
    /\ LET sample == Val(ds)[i + 1]
           img == Preprocess(sample.image)
           reference_captions == sample.raw
           preds == generate_caption(img, args.use_beam_search)
       IN /\ produced' = Append(produced, <<preds, reference_captions>>)
          /\ IF ~args.no_evaluation
             THEN /\ avg_metrics' =
                       compute_captioning_metrics(preds, reference_captions,
                                                  avg_metrics, i,
                                                  no_meteor_count)
                  /\ fed' = Append(fed, Call(preds, reference_captions, i,
                                             no_meteor_count))
             ELSE UNCHANGED <<avg_metrics, fed>>
          /\ IF args.export_captions
             THEN captions' = Append(captions, CaptionRecord(sample, preds))
             ELSE UNCHANGED captions
    /\ i' = i + 1
    /\ Goto("eval_loop")
    /\ UNCHANGED <<runs, argv, args, corpus, fsVars>>
    /\ UNCHANGED <<scoresWrites, captionsWrites>>
    /\ UNCHANGED <<model, preprocessor, model_basename, ds, no_meteor_count,
                   data>>

\* eval_model, line 83: the loop is over
EvalReturn ==
    /\ pc = "eval_loop"
    /\ ~Fails
    /\ i = Len(Val(ds))
    /\ Goto("finish")
    /\ UNCHANGED <<runs, argv, args, corpus, fsVars, localVars, histVars>>

\* line 127: the last element is assigned the model_basename record
WithSentinel(caps, basename) ==
    [caps EXCEPT ![Len(caps)] = [model_basename |-> basename]]

\* The name main passes to export_metrics at line 124.
ScoresBasename(a, local) == get_model_basename(Val(a.model_pth))

\* the averages written whenever they were computed
ExportsMetrics_WhenEvaluated(a) == ~a.no_evaluation

\* line 122: whether main hands the averages to export_metrics
ExportsMetrics(a) == ~a.export_captions

\* main, lines 120-134.  json.dump and json.load are inverse to one another
\* on lists of dicts of strings and lists of strings, so the file is held as
\* the list it encodes.
Finish ==
    /\ pc = "finish"
    /\ ~Fails
    /\ IF ExportsMetrics(args)
       THEN /\ export_metrics(avg_metrics,
                              ScoresBasename(args, model_basename))
            /\ UNCHANGED <<captions, captionsFile, exported, captionsWrites>>
       ELSE /\ captions' = WithSentinel(captions, Val(model_basename))
            /\ captionsFile' = Some(captions')
            /\ exported' = Some(produced)
            /\ captionsWrites' = captionsWrites + 1
            /\ UNCHANGED <<scoresDir, scoresFile, scoresWrites>>
    /\ Goto("done")
    /\ UNCHANGED <<runs, argv, args, corpus, produced, fed>>
    /\ UNCHANGED <<model, preprocessor, model_basename, ds, avg_metrics,
                   no_meteor_count, i, data>>

\* main, lines 138-147
ImportOpen ==
    /\ pc = "import_open"
    /\ ~Fails
    /\ data' = Val(captionsFile)
    /\ model_basename' = Some(data'[Len(data')].model_basename)
    /\ avg_metrics' = ZeroMetrics(args.metrics)
    /\ no_meteor_count' = 0
    /\ i' = 0
    /\ Goto("import_loop")
    /\ UNCHANGED <<runs, argv, args, corpus, fsVars, histVars>>
    /\ UNCHANGED <<model, preprocessor, ds, captions>>

\* main, lines 148-152: one iteration of the loop
ImportStep ==
    /\ pc = "import_loop"
    /\ ~Fails
    /\ i < Len(data) - 1
    /\ avg_metrics' =
         compute_captioning_metrics(data[i + 1].preds,
                                    data[i + 1].reference_captions,
                                    avg_metrics, i, no_meteor_count)
    /\ fed' = Append(fed, Call(data[i + 1].preds,
                               data[i + 1].reference_captions, i,
                               no_meteor_count))
    /\ i' = i + 1
    /\ Goto("import_loop")
    /\ UNCHANGED <<runs, argv, args, corpus, fsVars>>
    /\ UNCHANGED <<produced, scoresWrites, captionsWrites>>
    /\ UNCHANGED <<model, preprocessor, model_basename, ds, captions,
                   no_meteor_count, data>>

\* main, lines 154-157
ImportFinish ==
    /\ pc = "import_loop"
    /\ ~Fails
    /\ i = Len(data) - 1
    /\ export_metrics(avg_metrics, Val(model_basename))
    /\ Goto("done")
    /\ UNCHANGED <<runs, argv, args, corpus, captionsFile, exported>>
    /\ UNCHANGED <<produced, fed, captionsWrites, localVars>>

----------------------------------------------------------------------------
(* State after construction, start and end of a run *)

NoArgs == CHOOSE a \in Namespaces : TRUE

Fresh ==
    /\ pc = "idle"
    /\ runs = 0
    /\ argv = NoArgs
    /\ args = NoArgs
    /\ corpus = <<>>
    /\ err = ""
    /\ model = None
    /\ preprocessor = None
    /\ model_basename = None
    /\ ds = None
    /\ captions = <<>>
    /\ avg_metrics = <<>>
    /\ no_meteor_count = 0
    /\ i = 0
    /\ data = <<>>
    /\ produced = <<>>
    /\ fed = <<>>
    /\ scoresWrites = 0
    /\ captionsWrites = 0

\* What a run of lines 62-83 and 127-130 over corpus c leaves behind.
RECURSIVE Records(_, _)
Records(d, ubs) ==
    IF d = <<>> THEN <<>>
    ELSE <<CaptionRecord(d[1], generate_caption(Preprocess(d[1].image), ubs))>>
         \o Records(Tail(d), ubs)

Pairs(d, ubs) ==
    [k \in 1..Len(d) |->
       <<generate_caption(Preprocess(d[k].image), ubs), d[k].raw>>]

\* An earlier export: three images, the checkpoint ckpts/rsd_clipcap.
EarlierCorpus == <<2, 1, 1>>
EarlierModel == <<"ckpts", "rsd_clipcap">>

\* One run of main over one command line.  The scores directory may exist;
\* the captions file may have been exported by an earlier run.
Init ==
    /\ Fresh
    /\ scoresDir \in BOOLEAN
    /\ scoresFile = None
    /\ \E earlier \in BOOLEAN :
         IF earlier
         THEN LET d == get_splits_for_evaluation(EarlierCorpus)
              IN /\ captionsFile =
                      Some(WithSentinel(Records(d, FALSE),
                                        get_model_basename(EarlierModel)))
                 /\ exported = Some(Pairs(d, FALSE))
         ELSE /\ captionsFile = None
              /\ exported = None

\* A session of runs that starts with no scores file and no captions file.
InitSession ==
    /\ Fresh
    /\ scoresDir \in BOOLEAN
    /\ scoresFile = None
    /\ captionsFile = None
    /\ exported = None

\* The command line is parsed and main(args) is entered (lines 160-192).
Enter(namespaces, corpora, limit) ==
    /\ pc = "idle"
    /\ runs < limit
    /\ \E a \in namespaces, c \in corpora :
         /\ argv' = a
         /\ args' = a
         /\ corpus' = c
    /\ runs' = runs + 1
    /\ pc' = "main"
    /\ UNCHANGED <<err, fsVars, localVars, histVars>>

Start == Enter(Namespaces, Corpora, 1)

StartSession == Enter(SessionNamespaces, SessionCorpora, MaxRuns)

\* The interpreter exits: only the file system outlives the run.
Exit ==
    /\ pc \in {"done", "raised"}
    /\ pc' = "idle"
    /\ argv' = NoArgs
    /\ args' = NoArgs
    /\ corpus' = <<>>
    /\ err' = ""
    /\ model' = None
    /\ preprocessor' = None
    /\ model_basename' = None
    /\ ds' = None
    /\ captions' = <<>>
    /\ avg_metrics' = <<>>
    /\ no_meteor_count' = 0
    /\ i' = 0
    /\ data' = <<>>
    /\ produced' = <<>>
    /\ fed' = <<>>
    /\ scoresWrites' = 0
    /\ captionsWrites' = 0
    /\ UNCHANGED <<runs, fsVars>>

Step ==
    \/ Abort
    \/ Validate
    \/ Normalize
    \/ Load
    \/ EvalBegin
    \/ EvalStep
    \/ EvalReturn
    \/ Finish
    \/ ImportOpen
    \/ ImportStep
    \/ ImportFinish

Next ==
    \/ Start
    \/ Step

Spec == Init /\ [][Next]_vars

NextSession ==
    \/ StartSession
    \/ Step
    \/ Exit

SpecSession == InitSession /\ [][NextSession]_vars

----------------------------------------------------------------------------
(* Properties *)

Entered == pc # "idle"
FreshMode == Entered /\ IsNone(argv.captions_import_file)
ImportMode == Entered /\ ~IsNone(argv.captions_import_file)
PastChecks == Entered /\ pc # "main"

SplitsMismatch ==
    /\ ~argv.no_splits
    /\ Len(argv.splits.items) # Len(argv.annotations_files.items)

HasJsonSuffix(path) ==
    \E stem \in {<<>>, <<"a">>} : path = stem \o <<".", "j", "s", "o", "n">>

BadExportPath ==
    /\ argv.export_captions
    /\ ~HasJsonSuffix(argv.captions_export_file)

NoEvalNoExport == ~argv.export_captions /\ argv.no_evaluation

ConfigErrors ==
    {"MissingPaths", "SplitsMismatch", "BadExportPath", "NoEvalNoExport"}

RaisedConfigError == pc = "raised" /\ err \in ConfigErrors

NothingLoaded == model = None /\ preprocessor = None

FedPairs == [k \in 1..Len(fed) |-> <<fed[k].preds, fed[k].reference_captions>>]

\* C1: an import run that completes has fed metric computation exactly the
\* <<preds, reference_captions>> pairs, in order, that the exporting run
\* generated for its samples (what a direct evaluation of them is fed).
C1_RoundTrip ==
    (pc = "done" /\ ImportMode /\ ~IsNone(exported))
        => FedPairs = Val(exported)

RecordKeys == {"filename", "preds", "reference_captions"}

\* C2: after an export over n samples the captions file holds n + 1
\* elements: the n sample records in dataset order, then the one
\* model_basename record.
C2_ExportShape ==
    (pc = "done" /\ FreshMode /\ captionsWrites = 1)
        => LET f == Val(captionsFile)
               n == Len(corpus)
           IN /\ Len(f) = n + 1
              /\ \A k \in 1..n :
                   /\ DOMAIN f[k] = RecordKeys
                   /\ f[k].filename = SampleOf(corpus[k]).filename
              /\ DOMAIN f[n + 1] = {"model_basename"}

\* C3 as stated: no run whose split list and annotation-file list differ in
\* length (with no_splits False) completes; the driver raises.
C3_Original == pc = "done" => ~SplitsMismatch

\* C3 as amended: in fresh-evaluation mode a run whose split list and
\* annotation-file list differ in length (with no_splits False) raises a
\* configuration error once the checks are passed, with no checkpoint and no
\* processor loaded.
C3_RaisesBeforeLoad ==
    (FreshMode /\ SplitsMismatch /\ PastChecks)
        => /\ pc = "raised"
           /\ err \in {"MissingPaths", "SplitsMismatch"}
           /\ NothingLoaded

C3_Witness ==
    /\ pc = "raised"
    /\ err = "SplitsMismatch"
    /\ FreshMode
    /\ SplitsMismatch

\* C4 as stated: no run with export_captions True and an export path that
\* does not end in ".json" completes; the driver raises.
C4_Original == pc = "done" => ~BadExportPath

\* C4 as amended: in fresh-evaluation mode a run with export_captions True
\* and an export path that does not end in ".json" raises a configuration
\* error, and in every mode such a run writes no captions file.
C4_RaisesNoFile ==
    /\ (FreshMode /\ BadExportPath /\ PastChecks)
          => /\ pc = "raised"
             /\ err \in {"MissingPaths", "SplitsMismatch", "BadExportPath"}
    /\ (Entered /\ BadExportPath) => captionsWrites = 0

C4_Witness ==
    /\ pc = "raised"
    /\ err = "BadExportPath"
    /\ FreshMode
    /\ argv.captions_export_file # <<>>
    /\ captionsWrites = 0

\* C5 as stated: no run with export_captions False and no_evaluation True
\* completes; the driver raises.
C5_Original == pc = "done" => ~NoEvalNoExport

\* C5 as amended: in fresh-evaluation mode a run with export_captions False
\* and no_evaluation True raises a configuration error, and every run that
\* completes has written the scores file or the captions file.
C5_RaisesOrWrites ==
    /\ (FreshMode /\ NoEvalNoExport /\ PastChecks)
          => RaisedConfigError
    /\ pc = "done" => scoresWrites + captionsWrites >= 1
    /\ (pc = "done" /\ FreshMode /\ argv.no_evaluation) => captionsWrites = 1

C5_Witness ==
    /\ pc = "raised"
    /\ err = "NoEvalNoExport"
    /\ FreshMode

\* C6: when a run ends with one of the four configuration errors, nothing
\* has been loaded, assembled, generated, computed or written, and args is
\* as parsed.
C6_FailFast ==
    RaisedConfigError
        => /\ args = argv
           /\ NothingLoaded
           /\ ds = None
           /\ produced = <<>>
           /\ fed = <<>>
           /\ scoresWrites = 0
           /\ captionsWrites = 0
           /\ scoresFile = None

C6_Witness ==
    /\ RaisedConfigError
    /\ err = "NoEvalNoExport"
    /\ Len(argv.annotations_files.items) = 1
    /\ Len(argv.splits.items) = 1

Lines(file) == IF IsNone(file) THEN <<>> ELSE Val(file)

\* basename, tab, then metric, tab, value, tab for each metric, newline
IsScoresLine(line, metrics) ==
    /\ Len(line) = 3 + 4 * Len(metrics)
    /\ line[1] \in {"custom", "rsd_clipcap"}
    /\ line[2] = "\t"
    /\ \A k \in 1..Len(metrics) :
         /\ line[4 * k - 1] = metrics[k]
         /\ line[4 * k] = "\t"
         /\ line[4 * k + 1] \in 0..1000
         /\ line[4 * k + 2] = "\t"
    /\ line[Len(line)] = "\n"

\* C7: the scores directory, once there, stays; every change of the scores
\* file is made by one export_metrics call, keeps the lines it had, in
\* order, and adds one well-formed line at the end; and every call leaves
\* the directory in place.
C7_AppendOnly ==
    [][ /\ scoresDir => scoresDir'
        /\ (scoresFile' # scoresFile \/ scoresWrites' = scoresWrites + 1)
              => /\ scoresDir'
                 /\ scoresWrites' = scoresWrites + 1
                 /\ Len(Lines(scoresFile')) = Len(Lines(scoresFile)) + 1
                 /\ SubSeq(Lines(scoresFile'), 1, Len(Lines(scoresFile)))
                      = Lines(scoresFile)
                 /\ IsScoresLine(Lines(scoresFile')[Len(Lines(scoresFile'))],
                                 args.metrics) ]_vars

C7_Witness ==
    /\ pc = "done"
    /\ scoresWrites = 1
    /\ Len(Lines(scoresFile)) = 2
    /\ scoresFile[1][1] # scoresFile[1][2]

\* C8: a fresh-evaluation run given --model_basename that writes a scores
\* line writes that name at the start of the line.
C8_BasenameSaved ==
    (pc = "done" /\ FreshMode /\ scoresWrites = 1
        /\ ~IsNone(argv.model_basename))
        => LET lines == Val(scoresFile)
           IN lines[Len(lines)][1] = Val(argv.model_basename)

NotComputableBefore(k) ==
    Cardinality({ j \in 1..(k - 1) :
                    ~MeteorComputable(fed[j].preds,
                                      fed[j].reference_captions) })

\* C9: the counter passed with sample i to metric computation is the number
\* of earlier samples of the loop METEOR could not be computed for.
C9_NoMeteorCount ==
    \A k \in 1..Len(fed) : fed[k].no_meteor_count = NotComputableBefore(k)

\* C10: a fresh-evaluation run that completes has made exactly one write:
\* to the scores file if export_captions is False, to the captions file if
\* it is True; with export_captions True the scores file is left as it was
\* even if metrics were computed for every sample.
C10_OneOutput ==
    (pc = "done" /\ FreshMode)
        => /\ scoresWrites = (IF argv.export_captions THEN 0 ELSE 1)
           /\ captionsWrites = (IF argv.export_captions THEN 1 ELSE 0)
           /\ argv.export_captions => scoresFile = None
           /\ ~argv.no_evaluation => Len(fed) = Len(corpus)

C10_Witness ==
    /\ pc = "done"
    /\ FreshMode
    /\ argv.export_captions
    /\ ~argv.no_evaluation
    /\ Len(fed) = MaxSamples
    /\ captionsWrites = 1
    /\ scoresWrites = 0

====
